---- MODULE Spec2Model ----
(***************************************************************************)
(* GLContextEGLWayland (pcsx2/GS/Renderers/OpenGL/GLContextEGLWayland.cpp) *)
(*                                                                         *)
(* The provider owns a dlopen()ed libwayland-egl handle, three function    *)
(* pointers resolved from it and one wl_egl_window.  The dynamic-library   *)
(* facility, the wayland-egl shim and the EGL platform layer are mocked:   *)
(* every call into them is appended to `log` with its arguments and its    *)
(* result, and whether a call succeeds is an input of the operation.       *)
(* Each host-visible operation (Create, CreateSharedContext,               *)
(* ResizeSurface, surface re-creation, destruction) is one action that     *)
(* runs the whole handler, the callbacks and the destructor of a failed    *)
(* construction included.                                                  *)
(***************************************************************************)
EXTENDS Integers, Sequences, FiniteSets, TLC

VARIABLES prov, log, next, last, err, ops

vars == <<prov, log, next, last, err, ops>>

\* Number of host operations in one run.
MaxOps == 3
\* Surface dimensions range over 1..MaxDim.
MaxDim == 2

Dims == 1..MaxDim

\* The provider made by Create is 1, the one made by CreateSharedContext is 2.
Providers == {1, 2}

\* A null pointer / EGL_NO_DISPLAY / EGL_NO_SURFACE / EGL_NO_CONTEXT.
Null == 0

\* The three symbols LoadModule resolves, in the order of the dlsym calls.
SymCreate == 1
SymDestroy == 2
SymResize == 3
Symbols == {SymCreate, SymDestroy, SymResize}

\* Messages written to the error sink and to the console.
MsgDlopen == "Failed to load libwayland-egl.so.1."
MsgDlsym == "Failed to load one or more functions from libwayland-egl.so.1."
MsgExtension == "EGL_KHR_platform_wayland/EGL_EXT_platform_wayland not supported"
MsgShim == "wl_egl_window_create() failed"
MsgVersions == "Failed to create any context versions"
MsgPlatform == "EGL Platform: Wayland"

\* The digits of the two number formats.
DecDigits == <<"0", "1", "2", "3", "4", "5", "6", "7", "8", "9">>

HexDigits == <<"0", "1", "2", "3", "4", "5", "6", "7", "8", "9",
               "A", "B", "C", "D", "E", "F">>

\* The digits of n >= 0 in base Len(digits), most significant first.
RECURSIVE Digits(_, _)
Digits(n, digits) ==
  IF n < Len(digits)
    THEN digits[n + 1]
    ELSE Digits(n \div Len(digits), digits) \o digits[(n % Len(digits)) + 1]

\* "{}" of an EGLint: decimal, with a minus sign when negative.
FmtDec(n) == IF n < 0 THEN "-" \o Digits(-n, DecDigits) ELSE Digits(n, DecDigits)

\* "{:X}" of an EGLint: upper-case hexadecimal, with a minus sign when negative.
FmtHex(n) == IF n < 0 THEN "-" \o Digits(-n, HexDigits) ELSE Digits(n, HexDigits)

\* "eglGetPlatformDisplay() for Wayland failed: {} (0x{:X})", err, err
MsgDisplay(e) ==
  "eglGetPlatformDisplay() for Wayland failed: " \o FmtDec(e) \o " (0x" \o FmtHex(e) \o ")"

\* "eglCreatePlatformWindowSurface() for Wayland failed: {} (0x{:X})", err, err
MsgSurface(e) ==
  "eglCreatePlatformWindowSurface() for Wayland failed: " \o FmtDec(e) \o " (0x"
    \o FmtHex(e) \o ")"

(***************************************************************************)
(* The call record of the mocked facilities.                               *)
(***************************************************************************)
\* pr: the provider, op: the function called, a: its integer arguments,
\* r: its integer result (handles, 1/0 for booleans), msg: text it carries.
EvMsg(p, op, a, r, msg) == [pr |-> p, op |-> op, a |-> a, r |-> r, msg |-> msg]

Ev(p, op, a, r) == EvMsg(p, op, a, r, "")

Bool(b) == IF b THEN 1 ELSE 0

\* A world is what the code reads and writes while it runs: the providers'
\* fields, the call record, the next fresh handle, the error sink of the
\* caller, the value the last call returned, and ub, the outcome of a call
\* through an uninitialised function pointer should one be made.
\* The process has ended in a segmentation fault: the record ends with the
\* faulting call, and nothing runs after it.
Crashed(w) == Len(w.log) > 0 /\ w.log[Len(w.log)].op = "invalid-call"

Emit(w, e) == IF Crashed(w) THEN w ELSE [w EXCEPT !.log = Append(@, e)]

SetRet(w, r) == IF Crashed(w) THEN w ELSE [w EXCEPT !.ret = r]

SetError(w, msg) == IF Crashed(w) THEN w ELSE [w EXCEPT !.err = msg]

\* An assignment to member f of provider p.
SetField(w, p, f, v) == IF Crashed(w) THEN w ELSE [w EXCEPT !.prov[p][f] = v]

\* A mocked call that succeeded has handed out the next fresh handle.
Advance(w, taken) == IF Crashed(w) \/ ~taken THEN w ELSE [w EXCEPT !.next = @ + 1]

\* A newly made provider object.
SetProvider(w, p, f) == IF Crashed(w) THEN w ELSE [w EXCEPT !.prov[p] = f]

ConsoleError(w, p, msg) == Emit(w, EvMsg(p, "Console.Error", <<>>, 0, msg))

ConsoleWriteLn(w, p, msg) == Emit(w, EvMsg(p, "Console.WriteLn", <<>>, 0, msg))

\* Entry to and return from a member function; the return records the result
\* and the content of the error sink the function was given.
Enter(w, p, fn, a) == Emit(w, Ev(p, fn, a, 0))

Return(w, p, fn, a) == Emit(w, EvMsg(p, fn \o "/ret", a, w.ret, w.err))

ReturnVoid(w, p, fn, a) == Emit(w, EvMsg(p, fn \o "/ret", a, 0, w.err))

\* GLContextEGLWayland::GLContextEGLWayland(wi): the window and module
\* handles start null, the three function pointers are not initialised.
Construct(wi) ==
  [life |-> "live", wi |-> wi,
   m_wl_module |-> Null, m_wl_window |-> Null,
   m_wl_egl_window_create |-> "uninit",
   m_wl_egl_window_destroy |-> "uninit",
   m_wl_egl_window_resize |-> "uninit",
   m_display |-> Null, m_supports_surfaceless |-> FALSE,
   m_context |-> Null, m_surface |-> Null]

Unborn == [Construct([surface_width |-> 0, surface_height |-> 0]) EXCEPT !.life = "unborn"]

\* What a call through an uninitialised function pointer can do: the
\* pointer holds what the memory held, an address that faults or the address
\* an earlier object left there.
UbOutcomes == {"fault", "call"}

\* A call through one of the three function pointers: the call is made when
\* the pointer was resolved.  A call through a null pointer faults and ends
\* the process; a call through an uninitialised pointer is undefined
\* behaviour, and it faults or makes the call, as w.ub says.
CallFn(w, p, ptr, op, a, r) ==
  IF ptr = "resolved" \/ (ptr = "uninit" /\ w.ub = "call")
    THEN Emit(w, Ev(p, op, a, r))
    ELSE Emit(w, EvMsg(p, "invalid-call", a, 0, op))

(***************************************************************************)
(* bool GLContextEGLWayland::LoadModule()                                  *)
(* in.dlopen: the library opens; in.syms: the symbols the library exports. *)
(***************************************************************************)
\* m_wl_module = dlopen(WAYLAND_EGL_MODNAME, RTLD_NOW | RTLD_GLOBAL)
Dlopen(w, p, in) ==
  LET h == IF in.dlopen THEN w.next ELSE Null
  IN Emit(Advance(SetField(w, p, "m_wl_module", h), in.dlopen),
          Ev(p, "dlopen", <<>>, h))

\* dlsym(m_wl_module, name): the pointer is null when the library lacks it.
Dlsym(w, p, sym, found) ==
  Emit(w, Ev(p, "dlsym", <<w.prov[p].m_wl_module, sym>>, Bool(found)))

PtrOf(found) == IF found THEN "resolved" ELSE "null"

ResolveCreate(w, p, in) ==
  SetField(Dlsym(w, p, SymCreate, SymCreate \in in.syms),
           p, "m_wl_egl_window_create", PtrOf(SymCreate \in in.syms))

ResolveDestroy(w, p, in) ==
  SetField(Dlsym(w, p, SymDestroy, SymDestroy \in in.syms),
           p, "m_wl_egl_window_destroy", PtrOf(SymDestroy \in in.syms))

ResolveResize(w, p, in) ==
  SetField(Dlsym(w, p, SymResize, SymResize \in in.syms),
           p, "m_wl_egl_window_resize", PtrOf(SymResize \in in.syms))

\* Mutant: the resize pointer is left out of the test.
AllResolved_Partial(f) ==
  /\ f.m_wl_egl_window_create = "resolved"
  /\ f.m_wl_egl_window_destroy = "resolved"

\* LoadModule's test of the three pointers: none is null.
AllResolved(f) ==
  /\ f.m_wl_egl_window_create = "resolved"
  /\ f.m_wl_egl_window_destroy = "resolved"
  /\ f.m_wl_egl_window_resize = "resolved"

\* The test of the three pointers and the two returns that follow it.
CheckResolved(w, p) ==
  IF ~AllResolved(w.prov[p])
    THEN SetRet(ConsoleError(w, p, MsgDlsym), 0)
    ELSE SetRet(w, 1)

\* Mutant: the symbols are looked up before the library handle is tested.
AfterDlopen_ResolveFirst(w, p, in) ==
  CheckResolved(ResolveResize(ResolveDestroy(ResolveCreate(w, p, in), p, in), p, in), p)

\* The test of the library handle, and the rest of the function.
AfterDlopen(w, p, in) ==
  IF w.prov[p].m_wl_module = Null
    THEN SetRet(ConsoleError(w, p, MsgDlopen), 0)
    ELSE CheckResolved(ResolveResize(ResolveDestroy(ResolveCreate(w, p, in), p, in), p, in), p)

LoadModule(w, p, in) ==
  Return(AfterDlopen(Dlopen(Enter(w, p, "LoadModule", <<>>), p, in), p, in),
         p, "LoadModule", <<>>)

(***************************************************************************)
(* The generic base, GLContextEGL, as far as this file uses it.            *)
(***************************************************************************)
\* GLContextEGL::CheckExtension(ext1, ext2, error): whether the platform
\* layer advertises one of the two names; reports when neither is.
CheckExtension(w, p, in) ==
  IF in.khr \/ in.ext
    THEN SetRet(Emit(w, Ev(p, "CheckExtension", <<>>, 1)), 1)
    ELSE SetRet(SetError(Emit(w, Ev(p, "CheckExtension", <<>>, 0)), MsgExtension), 0)

\* GLContextEGL::ResizeSurface(w, h): the generic bookkeeping, which caches
\* the new surface dimensions in the window info.
BaseResizeSurface(w, p, width, height) ==
  Emit(SetField(w, p, "wi", [surface_width |-> width, surface_height |-> height]),
       Ev(p, "GLContextEGL::ResizeSurface", <<width, height>>, 0))

\* The base releases the platform surface it owns.
ReleaseSurfaceIfAny(w, p) ==
  IF w.prov[p].m_surface # Null
    THEN Emit(SetField(w, p, "m_surface", Null),
              Ev(p, "eglDestroySurface", <<w.prov[p].m_surface>>, 0))
    ELSE w

\* The base releases the context it owns.
ReleaseContextIfAny(w, p) ==
  IF w.prov[p].m_context # Null
    THEN Emit(SetField(w, p, "m_context", Null),
              Ev(p, "eglDestroyContext", <<w.prov[p].m_context>>, 0))
    ELSE w

\* GLContextEGL::~GLContextEGL(): releases the platform surface and the
\* context the base owns.  It runs after the body of the derived destructor.
BaseDestructor(w, p) == ReleaseContextIfAny(ReleaseSurfaceIfAny(w, p), p)

(***************************************************************************)
(* GLContextEGLWayland::~GLContextEGLWayland()                             *)
(***************************************************************************)
\* if (m_wl_window) m_wl_egl_window_destroy(m_wl_window);
DestroyWindowIfAny(w, p) ==
  IF w.prov[p].m_wl_window # Null
    THEN CallFn(w, p, w.prov[p].m_wl_egl_window_destroy,
                "wl_egl_window_destroy", <<w.prov[p].m_wl_window>>, 0)
    ELSE w

\* if (m_wl_module) dlclose(m_wl_module);
CloseModuleIfAny(w, p) ==
  IF w.prov[p].m_wl_module # Null
    THEN Emit(w, Ev(p, "dlclose", <<w.prov[p].m_wl_module>>, 0))
    ELSE w

\* Mutant: the shim window is not destroyed.
DestructorBody_NoWindowDestroy(w, p) == CloseModuleIfAny(w, p)

\* Mutant: the library is closed before the shim window is destroyed.
DestructorBody_CloseFirst(w, p) == DestroyWindowIfAny(CloseModuleIfAny(w, p), p)

\* The body of the destructor.
DestructorBody(w, p) == CloseModuleIfAny(DestroyWindowIfAny(w, p), p)

\* Destruction of a provider: the derived destructor's body, then the base's.
Destructor(w, p) ==
  SetField(
    ReturnVoid(BaseDestructor(DestructorBody(Enter(w, p, "~GLContextEGLWayland", <<>>), p), p),
               p, "~GLContextEGLWayland", <<>>),
    p, "life", "dead")

(***************************************************************************)
(* void GLContextEGLWayland::ResizeSurface(width, height)                  *)
(***************************************************************************)
\* Mutant: width and height are passed to the shim in the wrong order.
ResizeWindowIfAny_Swapped(w, p, width, height) ==
  IF w.prov[p].m_wl_window # Null
    THEN CallFn(w, p, w.prov[p].m_wl_egl_window_resize, "wl_egl_window_resize",
                <<w.prov[p].m_wl_window, height, width, 0, 0>>, 0)
    ELSE w

\* if (m_wl_window) m_wl_egl_window_resize(m_wl_window, width, height, 0, 0);
ResizeWindowIfAny(w, p, width, height) ==
  IF w.prov[p].m_wl_window # Null
    THEN CallFn(w, p, w.prov[p].m_wl_egl_window_resize, "wl_egl_window_resize",
                <<w.prov[p].m_wl_window, width, height, 0, 0>>, 0)
    ELSE w

ResizeSurface(w, p, width, height) ==
  ReturnVoid(
    BaseResizeSurface(
      ResizeWindowIfAny(Enter(w, p, "ResizeSurface", <<width, height>>), p, width, height),
      p, width, height),
    p, "ResizeSurface", <<width, height>>)

(***************************************************************************)
(* EGLDisplay GLContextEGLWayland::GetPlatformDisplay(attribs, error)      *)
(* in.khr, in.ext: the extensions advertised; in.dpy: the platform call    *)
(* succeeds.                                                               *)
(***************************************************************************)
\* dpy = eglGetPlatformDisplay(EGL_PLATFORM_WAYLAND_KHR, ...)
EglGetPlatformDisplay(w, p, in) ==
  LET dpy == IF in.dpy THEN w.next ELSE Null
  IN SetRet(Emit(Advance(w, in.dpy), Ev(p, "eglGetPlatformDisplay", <<>>, dpy)),
            dpy)

\* The test of dpy, the error it reports, and return dpy.
ReportDisplay(w, p, in) ==
  IF w.ret = Null
    THEN SetError(Emit(w, Ev(p, "eglGetError", <<>>, in.dpyerr)), MsgDisplay(in.dpyerr))
    ELSE w

\* Mutant: the result of CheckExtension is not tested.
AfterCheckExtension_Ignore(w, p, in) ==
  ReportDisplay(EglGetPlatformDisplay(w, p, in), p, in)

\* The test of CheckExtension's result, and the rest of the function.
AfterCheckExtension(w, p, in) ==
  IF w.ret = 0
    THEN SetRet(w, Null)
    ELSE ReportDisplay(EglGetPlatformDisplay(w, p, in), p, in)

GetPlatformDisplay(w, p, in) ==
  Return(AfterCheckExtension(
           CheckExtension(Enter(w, p, "GetPlatformDisplay", <<>>), p, in), p, in),
         p, "GetPlatformDisplay", <<>>)

(***************************************************************************)
(* EGLSurface GLContextEGLWayland::CreatePlatformSurface(config, attribs,  *)
(* error).  in.shim: wl_egl_window_create succeeds; in.surf: the platform  *)
(* call succeeds.                                                          *)
(***************************************************************************)
\* Mutant: the handle of the old shim window is overwritten, the window leaks.
DestroyOldWindow_Leak(w, p) == w

\* A shim window left by a prior call is destroyed and its handle cleared.
DestroyOldWindow(w, p) ==
  IF w.prov[p].m_wl_window # Null
    THEN SetField(CallFn(w, p, w.prov[p].m_wl_egl_window_destroy,
                         "wl_egl_window_destroy", <<w.prov[p].m_wl_window>>, 0),
                  p, "m_wl_window", Null)
    ELSE w

\* m_wl_window = m_wl_egl_window_create(window_handle, surface_width, surface_height)
CreateWindow(w, p, in) ==
  LET win == IF in.shim THEN w.next ELSE Null
  IN Advance(
       SetField(CallFn(w, p, w.prov[p].m_wl_egl_window_create, "wl_egl_window_create",
                       <<w.prov[p].wi.surface_width, w.prov[p].wi.surface_height>>, win),
                p, "m_wl_window", win),
       in.shim)

\* surface = eglCreatePlatformWindowSurface(m_display, config, m_wl_window, attribs)
EglCreatePlatformWindowSurface(w, p, in) ==
  LET surface == IF in.surf THEN w.next ELSE Null
  IN SetRet(Emit(Advance(w, in.surf),
                 Ev(p, "eglCreatePlatformWindowSurface",
                    <<w.prov[p].m_display, w.prov[p].m_wl_window>>, surface)),
            surface)

\* Mutant: the shim window is neither destroyed nor cleared.
RollbackWindow_Skip(w, p) == w

\* Mutant: the shim window is destroyed but its handle is kept.
RollbackWindow_NoClear(w, p) ==
  CallFn(w, p, w.prov[p].m_wl_egl_window_destroy,
         "wl_egl_window_destroy", <<w.prov[p].m_wl_window>>, 0)

\* The shim window just created is destroyed and its handle cleared.
RollbackWindow(w, p) ==
  SetField(CallFn(w, p, w.prov[p].m_wl_egl_window_destroy,
                  "wl_egl_window_destroy", <<w.prov[p].m_wl_window>>, 0),
           p, "m_wl_window", Null)

\* Mutant: the failure is reported and the shim window is kept.
AfterSurfaceRequest_NoRollback(w, p, in) ==
  IF w.ret = Null
    THEN SetError(Emit(w, Ev(p, "eglGetError", <<>>, in.surferr)), MsgSurface(in.surferr))
    ELSE w

\* The test of surface, the error it reports, the rollback, and return surface.
AfterSurfaceRequest(w, p, in) ==
  IF w.ret = Null
    THEN RollbackWindow(
           SetError(Emit(w, Ev(p, "eglGetError", <<>>, in.surferr)), MsgSurface(in.surferr)),
           p)
    ELSE w

\* Mutant: the result of wl_egl_window_create is not tested.
AfterCreateWindow_NoCheck(w, p, in) ==
  AfterSurfaceRequest(EglCreatePlatformWindowSurface(w, p, in), p, in)

\* The test of m_wl_window, and the rest of the function.
AfterCreateWindow(w, p, in) ==
  IF w.prov[p].m_wl_window = Null
    THEN SetRet(SetError(w, MsgShim), Null)
    ELSE AfterSurfaceRequest(EglCreatePlatformWindowSurface(w, p, in), p, in)

\* The return event carries the stored shim handle at the time of the return.
ReturnSurface(w, p) == Return(w, p, "CreatePlatformSurface", <<w.prov[p].m_wl_window>>)

CreatePlatformSurface(w, p, in) ==
  ReturnSurface(
    AfterCreateWindow(
      CreateWindow(DestroyOldWindow(Enter(w, p, "CreatePlatformSurface", <<>>), p), p, in),
      p, in),
    p)

(***************************************************************************)
(* The base's initialisation sequences, which call the two hooks above.    *)
(***************************************************************************)
\* The base stores the surface the hook returned; the hook's error sink was
\* local to the base, which logs its message.
StoreSurface(w, p, outer_err) ==
  SetError(SetField(IF w.ret = Null THEN ConsoleError(w, p, w.err) ELSE w,
                    p, "m_surface", w.ret),
           outer_err)

\* The base creates the surface through the CreatePlatformSurface hook.
CreateSurface(w, p, in) ==
  StoreSurface(CreatePlatformSurface(SetError(w, ""), p, in), p, w.err)

EglCreateContext(w, p, share_context, in) ==
  LET ctx == IF in.ctx THEN w.next ELSE Null
  IN Emit(Advance(SetField(w, p, "m_context", ctx), in.ctx),
          Ev(p, "eglCreateContext", <<share_context>>, ctx))

\* Making the context current when asked to; a failure releases the surface
\* and the context.
MakeCurrent(w, p, make_current, in) ==
  IF ~make_current
    THEN SetRet(w, 1)
    ELSE IF in.current
      THEN SetRet(Emit(w, Ev(p, "eglMakeCurrent", <<>>, 1)), 1)
      ELSE SetRet(ReleaseContextIfAny(
                    ReleaseSurfaceIfAny(Emit(w, Ev(p, "eglMakeCurrent", <<>>, 0)), p), p),
                  0)

AfterCreateSurface(w, p, make_current, in) ==
  IF w.prov[p].m_surface = Null
    THEN SetRet(ReleaseContextIfAny(w, p), 0)
    ELSE MakeCurrent(w, p, make_current, in)

AfterCreateContext(w, p, make_current, in) ==
  IF w.prov[p].m_context = Null
    THEN SetRet(w, 0)
    ELSE AfterCreateSurface(CreateSurface(w, p, in), p, make_current, in)

\* GLContextEGL::CreateContextAndSurface(version, share_context, make_current):
\* creates the context, then the surface through the CreatePlatformSurface
\* hook (with a sink of its own: this function takes none), then makes the
\* context current when asked to; each failure undoes the steps before it.
\* in.ctx: the context is created; in.current: making it current succeeds.
CreateContextAndSurface(w, p, share_context, make_current, in) ==
  AfterCreateContext(EglCreateContext(w, p, share_context, in), p, make_current, in)

\* The base stores the display the hook returned and the capability the
\* display reports (in.surfaceless).
StoreDisplay(w, p, in) ==
  IF w.ret = Null
    THEN SetField(w, p, "m_display", Null)
    ELSE SetField(SetField(w, p, "m_display", w.ret),
                  p, "m_supports_surfaceless", in.surfaceless)

ReportVersions(w) == IF w.ret = 0 THEN SetError(w, MsgVersions) ELSE w

AfterDisplay(w, p, in) ==
  IF w.prov[p].m_display = Null
    THEN SetRet(w, 0)
    ELSE ReportVersions(CreateContextAndSurface(w, p, Null, TRUE, in))

\* GLContextEGL::Initialize(versions_to_try, error): obtains the display
\* through the GetPlatformDisplay hook, then creates context and surface.
Initialize(w, p, in) ==
  AfterDisplay(StoreDisplay(GetPlatformDisplay(w, p, in), p, in), p, in)

SurfaceResult(w, p) == SetRet(w, Bool(w.prov[p].m_surface # Null))

\* Surface re-creation by the base (a lost drawable): the old platform
\* surface is released and the CreatePlatformSurface hook is invoked again.
RecreateSurface(w, p, in) ==
  SurfaceResult(CreateSurface(ReleaseSurfaceIfAny(w, p), p, in), p)

(***************************************************************************)
(* The factory functions.                                                  *)
(***************************************************************************)
\* context = std::make_unique<GLContextEGLWayland>(wi)
New(w, p, in) == SetProvider(w, p, Construct(in.wi))

\* Mutant: Initialize runs whatever LoadModule returned (| for ||).
InitializeIfLoaded_Always(w, p, in) ==
  IF w.ret = 0 THEN SetRet(Initialize(w, p, in), 0) ELSE Initialize(w, p, in)

\* !context->LoadModule() || !context->Initialize(versions_to_try, error)
InitializeIfLoaded(w, p, in) ==
  IF w.ret = 0 THEN w ELSE Initialize(w, p, in)

\* return nullptr, which destroys the provider the unique_ptr holds, or the
\* log line and return context.
CreateOutcome(w, p) ==
  Return(IF w.ret = 0 THEN Destructor(w, p) ELSE ConsoleWriteLn(w, p, MsgPlatform),
         p, "Create", <<>>)

\* std::unique_ptr<GLContext> GLContextEGLWayland::Create(wi, versions_to_try, error)
Create(w, p, in) ==
  CreateOutcome(
    InitializeIfLoaded(LoadModule(Enter(New(w, p, in), p, "Create", <<>>), p, in), p, in),
    p)

\* Mutant: the new provider is left as constructed.
NewShared_NoCopy(w, this, p, in) == New(w, p, in)

\* The new provider takes the display and the capability flag of this one.
NewShared(w, this, p, in) ==
  SetProvider(w, p,
    [Construct(in.wi) EXCEPT !.m_display = w.prov[this].m_display,
                             !.m_supports_surfaceless = w.prov[this].m_supports_surfaceless])

\* Mutant: CreateContextAndSurface runs whatever LoadModule returned.
ContextIfLoaded_Always(w, this, p, in) ==
  IF w.ret = 0
    THEN SetRet(CreateContextAndSurface(w, p, w.prov[this].m_context, FALSE, in), 0)
    ELSE CreateContextAndSurface(w, p, w.prov[this].m_context, FALSE, in)

\* !context->LoadModule() || !context->CreateContextAndSurface(m_version, m_context, false)
ContextIfLoaded(w, this, p, in) ==
  IF w.ret = 0
    THEN w
    ELSE CreateContextAndSurface(w, p, w.prov[this].m_context, FALSE, in)

\* Mutant: the failed provider is dropped without being destroyed.
SharedOutcome_Leak(w, p) ==
  Return(w, p, "CreateSharedContext", <<>>)

\* return nullptr, which destroys the new provider, or return context.
SharedOutcome(w, p) ==
  Return(IF w.ret = 0 THEN Destructor(w, p) ELSE w, p, "CreateSharedContext", <<>>)

\* std::unique_ptr<GLContext> GLContextEGLWayland::CreateSharedContext(wi)
\* this is the provider it is invoked on, p the new provider.
CreateSharedContext(w, this, p, in) ==
  SharedOutcome(
    ContextIfLoaded(
      LoadModule(Enter(NewShared(w, this, p, in), p, "CreateSharedContext", <<>>), p, in),
      this, p, in),
    p)

(***************************************************************************)
(* The state machine: the host's calls, in any order the API allows.       *)
(***************************************************************************)
\* The window infos the host supplies: two windows of different sizes, each
\* with a height that differs from its width.
WindowInfos ==
  {[surface_width |-> 1, surface_height |-> 2],
   [surface_width |-> 2, surface_height |-> 1]}

NoLoad == [dlopen |-> FALSE, syms |-> {}]

NoDisplay == [khr |-> FALSE, ext |-> FALSE, dpy |-> FALSE, surfaceless |-> FALSE, dpyerr |-> 0]

NoContext == [ctx |-> FALSE, current |-> FALSE]

NoSurface == [shim |-> FALSE, surf |-> FALSE, surferr |-> 0]

NoWindow == [surface_width |-> 0, surface_height |-> 0]

\* The values eglGetError returns after a failed call: EGL_NOT_INITIALIZED
\* (0x3001) and EGL_BAD_NATIVE_WINDOW (0x300B).
EglErrors == {12289, 12299}

\* The outcomes of the mocked calls.  An outcome that no call can consume (the
\* symbols of a library that does not open, the platform surface of a shim
\* window that is not created, the error code of a call that succeeds or is
\* not made) is not enumerated.
LoadInputs == {NoLoad} \cup [dlopen : {TRUE}, syms : SUBSET Symbols]

DisplayInputs ==
  {NoDisplay} \cup
  {[khr |-> k, ext |-> x, dpy |-> d, surfaceless |-> d /\ sl,
    dpyerr |-> IF (k \/ x) /\ ~d THEN e ELSE 0] :
     k \in BOOLEAN, x \in BOOLEAN, d \in BOOLEAN, sl \in BOOLEAN, e \in EglErrors}

SurfaceInputs ==
  {NoSurface} \cup {[shim |-> TRUE, surf |-> TRUE, surferr |-> 0]}
    \cup [shim : {TRUE}, surf : {FALSE}, surferr : EglErrors]

ContextInputs == {NoContext} \cup [ctx : {TRUE}, current : BOOLEAN]

\* The record of all the inputs of one operation.
Inputs(wi, l, d, c, s) ==
  [wi |-> wi, dlopen |-> l.dlopen, syms |-> l.syms,
   khr |-> d.khr, ext |-> d.ext, dpy |-> d.dpy, surfaceless |-> d.surfaceless,
   dpyerr |-> d.dpyerr, ctx |-> c.ctx, current |-> c.current,
   shim |-> s.shim, surf |-> s.surf, surferr |-> s.surferr]

\* The world a host call starts in; a call that takes an error sink is
\* handed an empty one.
World(ub) == [prov |-> prov, log |-> log, next |-> next, err |-> "", ret |-> 0, ub |-> ub]

\* The process is running: no call has faulted.
Running == \A i \in DOMAIN log : log[i].op # "invalid-call"

Init ==
  /\ prov = [p \in Providers |-> Unborn]
  /\ log = <<>>
  /\ next = 1
  /\ last = [op |-> "none", pr |-> 0, ok |-> TRUE]
  /\ err = ""
  /\ ops = 0

\* The state a host call on provider p leaves.
Finish(w, op, p, ok) ==
  /\ prov' = w.prov
  /\ log' = w.log
  /\ next' = w.next
  /\ err' = w.err
  /\ last' = [op |-> op, pr |-> p, ok |-> ok]
  /\ ops' = ops + 1

DoCreate ==
  /\ ops < MaxOps
  /\ Running
  /\ prov[1].life = "unborn"
  /\ \E wi \in WindowInfos, l \in LoadInputs, d \in DisplayInputs,
        c \in ContextInputs, s \in SurfaceInputs, ub \in UbOutcomes :
       Finish(Create(World(ub), 1, Inputs(wi, l, d, c, s)), "Create", 1,
              prov'[1].life = "live")

DoCreateSharedContext ==
  /\ ops < MaxOps
  /\ Running
  /\ prov[1].life = "live"
  /\ prov[2].life = "unborn"
  /\ \E wi \in WindowInfos, l \in LoadInputs, c \in ContextInputs, s \in SurfaceInputs,
        ub \in UbOutcomes :
       Finish(CreateSharedContext(World(ub), 1, 2, Inputs(wi, l, NoDisplay, c, s)),
              "CreateSharedContext", 2, prov'[2].life = "live")

DoResizeSurface(p) ==
  /\ ops < MaxOps
  /\ Running
  /\ prov[p].life = "live"
  /\ \E width \in Dims, height \in Dims, ub \in UbOutcomes :
       Finish(ResizeSurface(World(ub), p, width, height), "ResizeSurface", p, TRUE)

DoRecreateSurface(p) ==
  /\ ops < MaxOps
  /\ Running
  /\ prov[p].life = "live"
  /\ \E s \in SurfaceInputs, ub \in UbOutcomes :
       Finish(RecreateSurface(World(ub), p, Inputs(NoWindow, NoLoad, NoDisplay, NoContext, s)),
              "RecreateSurface", p, prov'[p].m_surface # Null)

DoDestroy(p) ==
  /\ ops < MaxOps
  /\ Running
  /\ prov[p].life = "live"
  /\ \E ub \in UbOutcomes : Finish(Destructor(World(ub), p), "Destroy", p, TRUE)

Next ==
  \/ DoCreate
  \/ DoCreateSharedContext
  \/ \E p \in Providers : DoResizeSurface(p)
  \/ \E p \in Providers : DoRecreateSurface(p)
  \/ \E p \in Providers : DoDestroy(p)

Spec == Init /\ [][Next]_vars

(***************************************************************************)
(* Reading the call record.                                                *)
(***************************************************************************)
\* The positions of provider p's calls of op.
Pos(p, op) == {i \in DOMAIN log : log[i].pr = p /\ log[i].op = op}

\* The return that ends the call of member function fn entered at e.
RetOf(p, fn, e) ==
  CHOOSE j \in Pos(p, fn \o "/ret") :
    j > e /\ \A j2 \in Pos(p, fn \o "/ret") : j2 > e => j <= j2

\* Shim windows created, and the destructions of shim window h.
Created(p) == {i \in Pos(p, "wl_egl_window_create") : log[i].r # Null}

DestroyedAt(p, h) == {i \in Pos(p, "wl_egl_window_destroy") : log[i].a[1] = h}

\* Libraries opened, and the closings of library handle h.
Opened(p) == {i \in Pos(p, "dlopen") : log[i].r # Null}

ClosedAt(p, h) == {i \in Pos(p, "dlclose") : log[i].a[1] = h}

\* The shim window created at i is alive just before position k.
WindowAliveAt(p, i, k) == i < k /\ \A d \in DestroyedAt(p, log[i].r) : d >= k

\* The library opened at m is open just before position k.
ModuleOpenAt(p, m, k) == m < k /\ \A c \in ClosedAt(p, log[m].r) : c >= k

(***************************************************************************)
(* Claims.                                                                 *)
(***************************************************************************)
\* C1: at most one shim window of a provider is alive at any time: no shim
\* window of the provider is alive when wl_egl_window_create is called, and a
\* CreatePlatformSurface call entered with a live shim window calls
\* wl_egl_window_destroy on it before it calls wl_egl_window_create.
C1_AtMostOneShim ==
  \A p \in Providers :
    /\ \A k \in Pos(p, "wl_egl_window_create") :
         \A i \in Created(p) : ~WindowAliveAt(p, i, k)
    /\ \A e \in Pos(p, "CreatePlatformSurface") :
         \A i \in Created(p) :
           WindowAliveAt(p, i, e) =>
             \E d \in DestroyedAt(p, log[i].r), k \in Pos(p, "wl_egl_window_create") :
               e < d /\ d < k /\ k < RetOf(p, "CreatePlatformSurface", e)

\* A successful CreatePlatformSurface call that was entered with a live shim.
C1_Witness ==
  \E p \in Providers :
    \E e \in Pos(p, "CreatePlatformSurface"), i \in Created(p) :
      /\ WindowAliveAt(p, i, e)
      /\ log[RetOf(p, "CreatePlatformSurface", e)].r # Null
      /\ \E k \in Created(p) : e < k /\ k < RetOf(p, "CreatePlatformSurface", e)

\* C2: a destruction entered with a live shim window and an open library
\* destroys the shim window before it closes the library, and no dlclose of
\* the provider precedes that wl_egl_window_destroy.
C2_ShimBeforeLibrary ==
  \A p \in Providers :
    \A e \in Pos(p, "~GLContextEGLWayland") :
      \A i \in Created(p), m \in Opened(p) :
        (WindowAliveAt(p, i, e) /\ ModuleOpenAt(p, m, e)) =>
          \E d \in DestroyedAt(p, log[i].r), c \in ClosedAt(p, log[m].r) :
            /\ e < d /\ d < c /\ c < RetOf(p, "~GLContextEGLWayland", e)
            /\ \A c2 \in Pos(p, "dlclose") : c2 > d

\* A provider destroyed by the host while it held a shim window and a library.
C2_Witness ==
  /\ last.op = "Destroy"
  /\ \E e \in Pos(last.pr, "~GLContextEGLWayland") :
       \E i \in Created(last.pr), m \in Opened(last.pr) :
         WindowAliveAt(last.pr, i, e) /\ ModuleOpenAt(last.pr, m, e)

\* Platform surfaces created, and the releases of platform surface h.
SurfacesCreated(p) == {i \in Pos(p, "eglCreatePlatformWindowSurface") : log[i].r # Null}

SurfaceReleasedAt(p, h) == {i \in Pos(p, "eglDestroySurface") : log[i].a[1] = h}

SurfaceAliveAt(p, i, k) == i < k /\ \A d \in SurfaceReleasedAt(p, log[i].r) : d >= k

\* The positions strictly between e and j.
Within(S, e, j) == {k \in S : e < k /\ k < j}

\* C3: a destruction entered with a live platform surface, a live shim
\* window and an open library releases the platform surface first, then
\* destroys the shim window, then closes the library.
C3_ReverseOrderTeardown ==
  \A p \in Providers :
    \A e \in Pos(p, "~GLContextEGLWayland") :
      \A s \in SurfacesCreated(p), i \in Created(p), m \in Opened(p) :
        (SurfaceAliveAt(p, s, e) /\ WindowAliveAt(p, i, e) /\ ModuleOpenAt(p, m, e)) =>
          \E rs \in SurfaceReleasedAt(p, log[s].r), d \in DestroyedAt(p, log[i].r),
             c \in ClosedAt(p, log[m].r) :
            e < rs /\ rs < d /\ d < c

\* C4: when the platform window-surface request fails on a shim window that
\* wl_egl_window_create returned, that window is destroyed exactly once, after
\* the request and before CreatePlatformSurface returns; the call returns no
\* surface with the stored handle null, and the provider holds no shim handle
\* until the next CreatePlatformSurface call.
C4_RollbackOnSurfaceFailure ==
  \A p \in Providers :
    \A e \in Pos(p, "CreatePlatformSurface") :
      LET j == RetOf(p, "CreatePlatformSurface", e)
      IN \A k \in Within(Pos(p, "eglCreatePlatformWindowSurface"), e, j) :
           log[k].r = Null =>
             /\ Cardinality(DestroyedAt(p, log[k].a[2])) = 1
             /\ \A d \in DestroyedAt(p, log[k].a[2]) : k < d /\ d < j
             /\ log[j].r = Null
             /\ log[j].a[1] = Null
             /\ (\A e2 \in Pos(p, "CreatePlatformSurface") : e2 <= e) =>
                   prov[p].m_wl_window = Null

\* A surface re-creation on a live provider whose platform request failed.
C4_Witness ==
  /\ last.op = "RecreateSurface"
  /\ ~last.ok
  /\ prov[last.pr].life = "live"
  /\ \E k \in Pos(last.pr, "eglCreatePlatformWindowSurface") :
       /\ log[k].r = Null
       /\ \A e \in Pos(last.pr, "CreatePlatformSurface") : e < k

\* C5: when dlopen fails for a provider, its factory returns failure and the
\* provider never runs the base initialiser or its two hooks: there is no
\* call of wl_egl_window_create, of eglCreatePlatformWindowSurface, of
\* GetPlatformDisplay or of CreatePlatformSurface for it.
C5_NoInitializeAfterLoadFailure ==
  \A p \in Providers :
    (\E i \in Pos(p, "dlopen") : log[i].r = Null) =>
      /\ Pos(p, "wl_egl_window_create") = {}
      /\ Pos(p, "eglCreatePlatformWindowSurface") = {}
      /\ Pos(p, "GetPlatformDisplay") = {}
      /\ Pos(p, "CreatePlatformSurface") = {}
      /\ Pos(p, "eglCreateContext") = {}
      /\ Pos(p, "invalid-call") = {}
      /\ Pos(p, "Create/ret") \cup Pos(p, "CreateSharedContext/ret") # {}
      /\ \A j \in Pos(p, "Create/ret") \cup Pos(p, "CreateSharedContext/ret") :
           log[j].r = 0
      /\ prov[p].life = "dead"

\* Create has returned failure because the library did not open.
C5_Witness ==
  /\ last.op = "Create"
  /\ ~last.ok
  /\ \E i \in Pos(1, "dlopen") : log[i].r = Null

\* C6: when the library opens and a symbol does not resolve, LoadModule and
\* the factory return failure, no shim window and no platform surface is
\* ever created for the provider, and the library is closed exactly once, by
\* the destructor that runs before the factory returns.
C6_MissingSymbol ==
  \A p \in Providers :
    \A m \in Opened(p) :
      (\E i \in Pos(p, "dlsym") : log[i].r = 0) =>
        /\ \A j \in Pos(p, "LoadModule/ret") : log[j].r = 0
        /\ Pos(p, "Create/ret") \cup Pos(p, "CreateSharedContext/ret") # {}
        /\ \A j \in Pos(p, "Create/ret") \cup Pos(p, "CreateSharedContext/ret") :
             /\ log[j].r = 0
             /\ \A c \in ClosedAt(p, log[m].r) : m < c /\ c < j
        /\ Pos(p, "wl_egl_window_create") = {}
        /\ Pos(p, "eglCreatePlatformWindowSurface") = {}
        /\ Pos(p, "CreatePlatformSurface") = {}
        /\ Pos(p, "invalid-call") = {}
        /\ Cardinality(ClosedAt(p, log[m].r)) = 1
        /\ \A c \in ClosedAt(p, log[m].r) :
             \E e \in Pos(p, "~GLContextEGLWayland") :
               e < c /\ c < RetOf(p, "~GLContextEGLWayland", e)
        /\ prov[p].life = "dead"
        /\ prov[p].m_wl_window = Null
        /\ prov[p].m_surface = Null

\* Create has returned failure with the library opened and exactly one of
\* the three symbols missing.
C6_Witness ==
  /\ last.op = "Create"
  /\ ~last.ok
  /\ Opened(1) # {}
  /\ Cardinality({i \in Pos(1, "dlsym") : log[i].r = 0}) = 1
  /\ Pos(1, "dlclose") # {}

\* C7: every failure return of Create, GetPlatformDisplay and
\* CreatePlatformSurface leaves a message in the error sink the caller gave.
C7_EveryFailureReported ==
  \A p \in Providers :
    /\ \A j \in Pos(p, "Create/ret") : log[j].r = 0 => log[j].msg # ""
    /\ \A j \in Pos(p, "GetPlatformDisplay/ret") : log[j].r = Null => log[j].msg # ""
    /\ \A j \in Pos(p, "CreatePlatformSurface/ret") : log[j].r = Null => log[j].msg # ""

\* C8: every library handle a provider opened and every shim window it
\* created is released at most once, after its acquisition and by that
\* provider, nothing else is released, and once the provider is gone (a
\* failed factory call or a destruction) each has been released exactly once.
C8_ReleasedExactlyOnce ==
  \A p \in Providers :
    /\ \A i \in Created(p) :
         /\ Cardinality(DestroyedAt(p, log[i].r)) <= 1
         /\ \A d \in DestroyedAt(p, log[i].r) : i < d
         /\ prov[p].life = "dead" => Cardinality(DestroyedAt(p, log[i].r)) = 1
    /\ \A m \in Opened(p) :
         /\ Cardinality(ClosedAt(p, log[m].r)) <= 1
         /\ \A c \in ClosedAt(p, log[m].r) : m < c
         /\ prov[p].life = "dead" => Cardinality(ClosedAt(p, log[m].r)) = 1
    /\ \A d \in Pos(p, "wl_egl_window_destroy") :
         \E i \in Created(p) : log[i].r = log[d].a[1]
    /\ \A c \in Pos(p, "dlclose") :
         \E m \in Opened(p) : log[m].r = log[c].a[1]
    /\ Pos(p, "invalid-call") = {}

\* The first provider was created and later destroyed by the host, and the
\* shared provider's creation failed after it had created a shim window.
C8_Witness ==
  /\ last.op = "Destroy"
  /\ last.pr = 1
  /\ Created(1) # {} /\ Opened(1) # {}
  /\ prov[2].life = "dead"
  /\ Created(2) # {} /\ Opened(2) # {}

\* C9: a provider's shim window is created only while its library is open
\* and is destroyed before the library is closed, and the shim handle a live
\* provider stores comes with a library handle that has not been closed.
C9_ShimWithinLibrary ==
  \A p \in Providers :
    /\ \A i \in Created(p) :
         /\ \E m \in Opened(p) : ModuleOpenAt(p, m, i)
         /\ \A c \in Pos(p, "dlclose") :
              i < c /\ \E d \in DestroyedAt(p, log[i].r) : d < c
    /\ (prov[p].life = "live" /\ prov[p].m_wl_window # Null) =>
         /\ prov[p].m_wl_module # Null
         /\ ClosedAt(p, prov[p].m_wl_module) = {}
         /\ \E m \in Opened(p) : log[m].r = prov[p].m_wl_module

\* One provider went through teardown with a shim window and a library, the
\* other is alive and holds a shim window.
C9_Witness ==
  \E p \in Providers, q \in Providers :
    /\ prov[p].life = "dead"
    /\ Created(p) # {} /\ Pos(p, "dlclose") # {}
    /\ prov[q].life = "live"
    /\ prov[q].m_wl_window # Null

\* C10: a ResizeSurface(w, h) call entered with shim window x alive calls
\* wl_egl_window_resize exactly once, with (x, w, h, 0, 0), and entered with
\* no shim window never calls it; either way it calls the base's
\* ResizeSurface exactly once, with (w, h), after the shim resize if any.
C10_ResizeForwarding ==
  \A p \in Providers :
    \A e \in Pos(p, "ResizeSurface") :
      LET j == RetOf(p, "ResizeSurface", e)
          R == Within(Pos(p, "wl_egl_window_resize"), e, j)
          G == Within(Pos(p, "GLContextEGL::ResizeSurface"), e, j)
          alive == {log[i].r : i \in {i \in Created(p) : WindowAliveAt(p, i, e)}}
      IN /\ Cardinality(G) = 1
         /\ \A g \in G : log[g].a = log[e].a
         /\ (alive = {}) <=> (R = {})
         /\ Cardinality(R) <= 1
         /\ \A k \in R :
              /\ log[k].a = <<log[k].a[1], log[e].a[1], log[e].a[2], 0, 0>>
              /\ log[k].a[1] \in alive
              /\ \A g \in G : k < g
         /\ Within(Pos(p, "invalid-call"), e, j) = {}
         /\ Within(Pos(p, "ResizeSurface"), e, j) = {}

\* The host has just resized a provider that holds a shim window, to a width
\* that differs from the height.
C10_Witness ==
  /\ last.op = "ResizeSurface"
  /\ prov[last.pr].m_wl_window # Null
  /\ \E k \in Pos(last.pr, "wl_egl_window_resize") :
       /\ log[k].a[1] = prov[last.pr].m_wl_window
       /\ log[k].a[2] # log[k].a[3]
       /\ \A e \in Pos(last.pr, "ResizeSurface") : e < k

\* C11: a GetPlatformDisplay call in which CheckExtension finds neither
\* Wayland-platform extension returns no display, and eglGetPlatformDisplay
\* is not called in it.
C11_NoAcquisitionWithoutExtension ==
  \A p \in Providers :
    \A e \in Pos(p, "GetPlatformDisplay") :
      LET j == RetOf(p, "GetPlatformDisplay", e)
      IN \A c \in Within(Pos(p, "CheckExtension"), e, j) :
           log[c].r = 0 =>
             /\ log[j].r = Null
             /\ Within(Pos(p, "eglGetPlatformDisplay"), e, j) = {}
             /\ prov[p].m_display = Null

\* Create has failed in GetPlatformDisplay because CheckExtension found
\* neither extension.
C11_Witness ==
  /\ last.op = "Create"
  /\ ~last.ok
  /\ \E c \in Pos(1, "CheckExtension") : log[c].r = 0
  /\ \E j \in Pos(1, "GetPlatformDisplay/ret") : log[j].r = Null

\* The events a step appends to the log.
NewEvents == (Len(log) + 1)..Len(log')

\* C12: a CreateSharedContext call that fails, in LoadModule or in
\* CreateContextAndSurface, returns null; by then every library the new
\* provider opened is closed once and every shim window it created is
\* destroyed once; the provider it was invoked on keeps all its fields, the
\* library handle, the shim window, the display and the context among them,
\* and none of the calls made touches its library or its shim window.
C12_FailedSharedContextFrame ==
  [][ (/\ ops' = ops + 1
       /\ log'[Len(log')].op = "CreateSharedContext/ret"
       /\ log'[Len(log')].r = 0) =>
        /\ ~last'.ok
        /\ prov'[2].life = "dead"
        /\ (\A m \in Opened(2) : Cardinality(ClosedAt(2, log[m].r)) = 1)'
        /\ (\A i \in Created(2) : Cardinality(DestroyedAt(2, log[i].r)) = 1)'
        /\ prov'[1] = prov[1]
        /\ \A k \in NewEvents :
             /\ log'[k].pr = 2
             /\ log'[k].op = "dlclose" => log'[k].a[1] # prov[1].m_wl_module
             /\ log'[k].op \in {"wl_egl_window_destroy", "wl_egl_window_resize"}
                  => log'[k].a[1] # prov[1].m_wl_window
             /\ log'[k].op \in {"eglDestroyContext", "eglDestroySurface"}
                  => log'[k].a[1] \notin {prov[1].m_context, prov[1].m_surface}
    ]_vars

\* CreateSharedContext has failed after the new provider opened its library
\* and created a shim window, on a provider that holds a shim window.
C12_Witness ==
  /\ last.op = "CreateSharedContext"
  /\ ~last.ok
  /\ Opened(2) # {}
  /\ Created(2) # {}
  /\ prov[1].life = "live"
  /\ prov[1].m_wl_window # Null
  /\ prov[1].m_wl_module # Null

\* C13: a CreatePlatformSurface call in which wl_egl_window_create returns
\* null returns no surface with a null stored shim handle, does not call
\* eglCreatePlatformWindowSurface, and every shim window the provider created
\* before the call has been destroyed exactly once before the failed
\* wl_egl_window_create.
C13_ShimCreationFailure ==
  \A p \in Providers :
    \A e \in Pos(p, "CreatePlatformSurface") :
      LET j == RetOf(p, "CreatePlatformSurface", e)
      IN \A c \in Within(Pos(p, "wl_egl_window_create"), e, j) :
           log[c].r = Null =>
             /\ log[j].r = Null
             /\ log[j].a[1] = Null
             /\ log[j].msg = MsgShim
             /\ Within(Pos(p, "eglCreatePlatformWindowSurface"), e, j) = {}
             /\ \A i \in Created(p) :
                  i < e => /\ Cardinality(DestroyedAt(p, log[i].r)) = 1
                           /\ \A d \in DestroyedAt(p, log[i].r) : d < c

\* A re-creation of the surface of a provider that held a shim window has
\* failed in wl_egl_window_create.
C13_Witness ==
  /\ last.op = "RecreateSurface"
  /\ ~last.ok
  /\ prov[last.pr].m_wl_window = Null
  /\ \E e \in Pos(last.pr, "CreatePlatformSurface") :
       /\ \E i \in Created(last.pr) : WindowAliveAt(last.pr, i, e)
       /\ \E c \in Pos(last.pr, "wl_egl_window_create") : c > e /\ log[c].r = Null

\* C14: the provider CreateSharedContext returns has the display handle and
\* the surfaceless flag of the provider it was invoked on, neither
\* GetPlatformDisplay nor eglGetPlatformDisplay was called for it, and its
\* library handle is the result of a dlopen call of its own, the only one it
\* made.
C14_SharedContextInherits ==
  \A j \in Pos(2, "CreateSharedContext/ret") :
    log[j].r # 0 =>
      /\ prov[2].life # "unborn"
      /\ prov[2].m_display = prov[1].m_display
      /\ prov[2].m_display # Null
      /\ prov[2].m_supports_surfaceless = prov[1].m_supports_surfaceless
      /\ Pos(2, "GetPlatformDisplay") = {}
      /\ Pos(2, "eglGetPlatformDisplay") = {}
      /\ Pos(2, "CheckExtension") = {}
      /\ Cardinality(Pos(2, "dlopen")) = 1
      /\ \A m \in Pos(2, "dlopen") :
           /\ m < j
           /\ log[m].r # Null
           /\ prov[2].m_wl_module = log[m].r
           /\ \A m1 \in Pos(1, "dlopen") : m1 < m

\* CreateSharedContext has returned a provider, on a provider that supports
\* surfaceless contexts.
C14_Witness ==
  /\ last.op = "CreateSharedContext"
  /\ last.ok
  /\ prov[2].life = "live"
  /\ prov[1].m_supports_surfaceless
  /\ prov[2].m_wl_module # Null
  /\ \E j \in Pos(2, "CreateSharedContext/ret") : log[j].r # 0

\* C15: when dlopen fails, LoadModule returns false and leaves the provider
\* as constructed: the library handle is null, dlsym is not called, none of
\* the three function pointers is resolved; the destruction of the provider
\* that follows calls neither wl_egl_window_destroy nor dlclose, and calls
\* through no unresolved pointer.
C15_FailedOpenLeavesNothing ==
  \A p \in Providers :
    \A m \in Pos(p, "dlopen") :
      log[m].r = Null =>
        /\ \A e \in Pos(p, "LoadModule") :
             e < m /\ m < RetOf(p, "LoadModule", e)
                   /\ log[RetOf(p, "LoadModule", e)].r = 0
        /\ prov[p].m_wl_module = Null
        /\ Pos(p, "dlsym") = {}
        /\ prov[p].m_wl_egl_window_create # "resolved"
        /\ prov[p].m_wl_egl_window_destroy # "resolved"
        /\ prov[p].m_wl_egl_window_resize # "resolved"
        /\ prov[p].m_wl_window = Null
        /\ prov[p].life = "dead"
        /\ Cardinality(Pos(p, "~GLContextEGLWayland")) = 1
        /\ Pos(p, "wl_egl_window_destroy") = {}
        /\ Pos(p, "dlclose") = {}
        /\ Pos(p, "invalid-call") = {}

\* CreateSharedContext has failed because the library of the new provider
\* did not open, and the new provider has been destroyed.
C15_Witness ==
  /\ last.op = "CreateSharedContext"
  /\ \E m \in Pos(2, "dlopen") : log[m].r = Null
  /\ \E e \in Pos(2, "~GLContextEGLWayland") :
       \A m \in Pos(2, "dlopen") : m < e

\* The calls a provider made through its three function pointers.
ShimCalls(p) ==
  Pos(p, "wl_egl_window_create") \cup Pos(p, "wl_egl_window_destroy")
    \cup Pos(p, "wl_egl_window_resize")

\* The LoadModule call of the provider that returned at j resolved symbol sym.
ResolvedBefore(p, sym, j) ==
  \E d \in Pos(p, "dlsym") : d < j /\ log[d].a[2] = sym /\ log[d].r = 1

\* C16: no call is made through a null or uninitialised function pointer,
\* and every call a provider makes through one of its three function
\* pointers comes after a LoadModule call of that provider that returned
\* true and in which dlsym resolved all three symbols.
C16_CallsOnlyThroughResolvedPointers ==
  \A p \in Providers :
    /\ Pos(p, "invalid-call") = {}
    /\ \A k \in ShimCalls(p) :
         \E j \in Pos(p, "LoadModule/ret") :
           /\ j < k
           /\ log[j].r = 1
           /\ \A sym \in {SymCreate, SymDestroy, SymResize} : ResolvedBefore(p, sym, j)

\* A provider has called through each of its three function pointers.
C16_Witness ==
  \E p \in Providers :
    /\ Pos(p, "wl_egl_window_create") # {}
    /\ Pos(p, "wl_egl_window_resize") # {}
    /\ Pos(p, "wl_egl_window_destroy") # {}

\* The most recent return of CreatePlatformSurface of provider p.
LastSurfaceReturn(p) ==
  CHOOSE j \in Pos(p, "CreatePlatformSurface/ret") :
    \A j2 \in Pos(p, "CreatePlatformSurface/ret") : j2 <= j

\* C17: at every return of CreatePlatformSurface the stored shim handle is
\* non-null exactly when the surface returned is non-null, and a live
\* provider stores a shim handle exactly when its most recent
\* CreatePlatformSurface call returned a surface; after a call that returned
\* no surface the provider makes no wl_egl_window_resize and no
\* wl_egl_window_destroy call until a later call creates a shim window.
C17_ShimIffSurface ==
  \A p \in Providers :
    /\ \A j \in Pos(p, "CreatePlatformSurface/ret") :
         /\ (log[j].a[1] # Null) <=> (log[j].r # Null)
         /\ log[j].r = Null =>
              \A k \in Pos(p, "wl_egl_window_resize") \cup Pos(p, "wl_egl_window_destroy") :
                k > j => \E c \in Created(p) : j < c /\ c < k
    /\ (prov[p].life = "live" /\ Pos(p, "CreatePlatformSurface/ret") # {}) =>
         /\ (prov[p].m_wl_window # Null) <=> (log[LastSurfaceReturn(p)].r # Null)
         /\ prov[p].m_wl_window = log[LastSurfaceReturn(p)].a[1]

\* The surface of a provider that held a shim window has been resized after
\* a re-creation that returned no surface: the provider stores no shim handle
\* and the resize made no shim call.
C17_Witness ==
  /\ last.op = "ResizeSurface"
  /\ prov[last.pr].life = "live"
  /\ prov[last.pr].m_wl_window = Null
  /\ Created(last.pr) # {}
  /\ log[LastSurfaceReturn(last.pr)].r = Null
  /\ \E e \in Pos(last.pr, "ResizeSurface") :
       /\ e > LastSurfaceReturn(last.pr)
       /\ \A k \in Pos(last.pr, "wl_egl_window_resize") : k < e

====
